---- MODULE Spec2Model ----
(***************************************************************************)
(* Model of mcmodgetter's Modrinth engine (src/src/modrinth.rs): the batch *)
(* operation download_from_id_list2 = collect_mods, resolve_dependencies   *)
(* (self-recursive passes), then one Mod::download task per entry; and the *)
(* single-id operation handle_single_input = verify_id or download_from_id *)
(* (get_file_direct, then download_file).                                  *)
(* The registry, the file server and the file system are the environment:  *)
(* their responses are fixed at Init and never change during a behaviour.  *)
(***************************************************************************)
EXTENDS Integers, Sequences, FiniteSets, TLC

VARIABLES
    env,            \* registry + file server + file-system faults (fixed)
    ids,            \* the requested id list (argument of the batch operation)
    query,          \* the VersionQuery built from the configuration
    pc,             \* position of the batch operation
    mods,           \* Vec<Mod> built by collect_mods, grown by resolve_dependencies
    deps_to_search, \* resolve_dependencies: dependencies collected in this pass
    dep_versions,   \* resolve_dependencies: join_all results, in input order
    ver_idx,        \* resolve_dependencies: results consumed by the for loop
    new_deps,       \* resolve_dependencies: u16 counter of pushes in this pass
    tasks,          \* download tasks of this batch, one per entry of mods
    dir,            \* the output directory: filename -> file state
    hist            \* history of the run (observations only, never read by the code)

vars == <<env, ids, query, pc, mods, deps_to_search, dep_versions, ver_idx, new_deps,
          tasks, dir, hist>>

----------------------------------------------------------------------------
(* Bounds of the model *)

\* longest dependency list of version a1 in the resolver scenarios
MaxDeps == 2
\* longest requested id list in the download scenarios
MaxIds == 2
\* invocations of the batch operation in the download scenarios
MaxRuns == 2
\* longest --mcvs string in the query scenarios
MaxParam == 4
\* longest file list of a version in the file-selection scenarios
MaxFiles == 3

\* width of new_deps (u16)
U16 == 65536

None == "none"

ProjectIds == {"A", "B", "C"}
VersionIds == {"a1", "b1", "b2", "c1"}
Filenames == {"f.jar", "g.jar", "h.jar"}

RangeOf(s) == {s[i] : i \in 1..Len(s)}

SeqsUpTo(S, n) == UNION {[1..k -> S] : k \in 0..n}

----------------------------------------------------------------------------
(* Bytes and digests *)

\* SHA-512 of a byte string: an injective digest on the byte strings of the model
RECURSIVE Sha512(_)
Sha512(bytes) ==
    IF bytes = <<>> THEN 1
    ELSE Sha512(SubSeq(bytes, 1, Len(bytes) - 1)) * 5 + bytes[Len(bytes)]

\* ModrinthFileHash::check512
check512(sha512, other_hash) == sha512 = other_hash

----------------------------------------------------------------------------
(* VersionQuery: strings are sequences of characters *)

Comma == ","
Quote == "\""

\* mutant: empty pieces are skipped
RECURSIVE split_skips_empty(_)
split_skips_empty(s) ==
    IF \A i \in 1..Len(s) : s[i] # Comma THEN (IF s = <<>> THEN <<>> ELSE <<s>>)
    ELSE LET k == CHOOSE i \in 1..Len(s) :
                      s[i] = Comma /\ \A j \in 1..(i - 1) : s[j] # Comma
         IN  (IF k = 1 THEN <<>> ELSE <<SubSeq(s, 1, k - 1)>>)
             \o split_skips_empty(SubSeq(s, k + 1, Len(s)))

\* str::split(","): the pieces between the commas, empty pieces included
RECURSIVE split(_)
split(s) ==
    IF \A i \in 1..Len(s) : s[i] # Comma THEN <<s>>
    ELSE LET k == CHOOSE i \in 1..Len(s) :
                      s[i] = Comma /\ \A j \in 1..(i - 1) : s[j] # Comma
         IN  <<SubSeq(s, 1, k - 1)>> \o split(SubSeq(s, k + 1, Len(s)))

\* the `while let Some(prm) = params.next()` loop
RECURSIVE push_params(_, _)
push_params(res, params) ==
    IF params = <<>> THEN res
    ELSE push_params(res \o <<Comma, Quote>> \o Head(params) \o <<Quote>>, Tail(params))

\* VersionQuery::build_param_array
build_param_array(user_params) ==
    LET params == split(user_params)
        first == IF params = <<>> THEN <<>> ELSE Head(params)
        res == <<"[", Quote>> \o first \o <<Quote>>
    IN  push_params(res, IF params = <<>> THEN <<>> ELSE Tail(params)) \o <<"]">>

\* VersionQuery::build_query
build_query(user_mcvs, user_loader) ==
    [game_versions |-> build_param_array(user_mcvs),
     loaders |-> build_param_array(user_loader)]

\* no query has been built yet
NoQuery == [game_versions |-> <<>>, loaders |-> <<>>]

----------------------------------------------------------------------------
(* Registry client *)

Dep(v, p) == [version_id |-> v, project_id |-> p]

OkVer(v) == [ok |-> TRUE, ver |-> v, err |-> None]
ErrVer(e) == [ok |-> FALSE, ver |-> None, err |-> e]
Pending == [ok |-> FALSE, ver |-> None, err |-> "pending"]

get_project(id) == id \in env.projOk

get_version(project_id) == env.top[project_id]

get_version_from_version_id(id) ==
    IF id \in env.verOk THEN OkVer(id) ELSE ErrVer("BadRequest")

get_top_version(project_id) ==
    LET response == get_version(project_id)
    IN  IF ~response.ok THEN ErrVer("BadRequest")
        ELSE IF Len(response.list) = 0 THEN ErrVer("NoVersion")
        ELSE OkVer(response.list[1])

\* mutant: the project id is looked at first
resolve_to_version_project_first(dep) ==
    IF dep.project_id # None THEN get_top_version(dep.project_id)
    ELSE IF dep.version_id # None THEN get_version_from_version_id(dep.version_id)
    ELSE ErrVer("NoDependency")

\* the registry request RequiredDependency::resolve_to_version awaits, if any
NoRequest == <<"none", None>>
RequestPending == <<"pending", None>>

registry_request(dep) ==
    IF dep.version_id # None THEN <<"get_version_from_version_id", dep.version_id>>
    ELSE IF dep.project_id # None THEN <<"get_version", dep.project_id>>
    ELSE NoRequest

resolve_to_version(dep) ==
    IF dep.version_id # None THEN get_version_from_version_id(dep.version_id)
    ELSE IF dep.project_id # None THEN get_top_version(dep.project_id)
    ELSE ErrVer("NoDependency")

\* Option<usize>, zero-based
SomeIdx(i) == [some |-> TRUE, idx |-> i]
NoIdx == [some |-> FALSE, idx |-> 0]

\* mutant: the last file marked primary is selected
search_for_primary_file_last(files) ==
    IF Len(files) = 0 THEN NoIdx
    ELSE IF \E i \in 1..Len(files) : files[i].primary
         THEN SomeIdx((CHOOSE i \in 1..Len(files) :
                          /\ files[i].primary
                          /\ \A j \in (i + 1)..Len(files) : ~files[j].primary) - 1)
         ELSE SomeIdx(0)

search_for_primary_file(files) ==
    IF Len(files) = 0 THEN NoIdx
    ELSE IF \E i \in 1..Len(files) : files[i].primary
         THEN SomeIdx((CHOOSE i \in 1..Len(files) :
                          /\ files[i].primary
                          /\ \A j \in 1..(i - 1) : ~files[j].primary) - 1)
         ELSE SomeIdx(0)

OkMod(m) == [ok |-> TRUE, mod |-> m, err |-> None]
ErrMod(e) == [ok |-> FALSE, mod |-> None, err |-> e]

\* Mod::build
build(proj, v, primary_file_idx) ==
    [project_id   |-> proj,
     version_id   |-> v,
     file         |-> env.versions[v].files[primary_file_idx + 1],
     dependencies |-> env.versions[v].dependencies]

\* Mod::build_from_version
build_from_version(v) ==
    LET ver == env.versions[v]
        primary == search_for_primary_file(ver.files)
    IN  IF ~get_project(ver.project_id) THEN ErrMod("BadRequest")
        ELSE IF ~primary.some THEN ErrMod("NoFile")
        ELSE OkMod(build(ver.project_id, v, primary.idx))

\* Mod::build_from_project_id
build_from_project_id(project_id) ==
    IF ~get_project(project_id) THEN ErrMod("BadRequest")
    ELSE LET top_version == get_top_version(project_id)
         IN  IF ~top_version.ok THEN ErrMod(top_version.err)
             ELSE LET primary == search_for_primary_file(
                                     env.versions[top_version.ver].files)
                  IN  IF ~primary.some THEN ErrMod("NoFile")
                      ELSE OkMod(build(project_id, top_version.ver, primary.idx))

\* mutant: the comparison reads the version id
ModEqId_version(m, project_id) == m.version_id = project_id

\* impl PartialEq<String> for Mod
ModEqId(m, project_id) == m.project_id = project_id

ProjectsOf(ms) == {ms[i].project_id : i \in 1..Len(ms)}

----------------------------------------------------------------------------
(* File system *)

\* the state of one path of the output directory
NotExists == [exists |-> FALSE, readable |-> TRUE, bytes |-> <<>>]
FileWith(bytes, readable) == [exists |-> TRUE, readable |-> readable, bytes |-> bytes]

\* mutant: an unreadable file is reported as a bad hash
verify_against_unreadable_is_bad_hash(m, file) ==
    IF ~file.exists THEN "NotExists"
    ELSE IF file.readable /\ check512(m.file.sha512, Sha512(file.bytes)) THEN "Ok"
         ELSE "BadHash"

\* verify_file (the verification mode's copy of the same decision)
verify_file(mfile, file) ==
    IF ~file.exists THEN "NotExists"
    ELSE IF file.readable
         THEN IF mfile.sha512 = Sha512(file.bytes) THEN "Ok" ELSE "BadHash"
         ELSE "BadFile"

\* Mod::verify_against
verify_against(m, file) ==
    IF ~file.exists THEN "NotExists"
    ELSE IF file.readable
         THEN IF check512(m.file.sha512, Sha512(file.bytes)) THEN "Ok" ELSE "BadHash"
         ELSE "BadFile"

\* fs::File::create: a new file, or the existing one truncated (its permissions stay)
fs_create(file) ==
    IF file.exists THEN [file EXCEPT !.bytes = <<>>] ELSE FileWith(<<>>, TRUE)

\* Write::write_all with at most `limit` bytes accepted before the error
\* (a negative limit: no error)
fs_write(file, bytes, limit) ==
    [file EXCEPT !.bytes = IF limit >= 0 /\ limit < Len(bytes)
                           THEN SubSeq(bytes, 1, limit) ELSE bytes]

----------------------------------------------------------------------------
(* Mod::download, from the response of the fetch on: the outcome of the task *)
(* and the state of the destination path after it                           *)

TaskOk == "Ok"

\* mutant: the mismatching bytes are written all the same
download_mismatch_writes(m, file) ==
    [result |-> TaskOk,
     file |-> fs_write(fs_create(file), env.fetch[m.file.url].bytes, -1)]

download_mismatch(m, file) ==
    [result |-> TaskOk, file |-> file]

\* mutant: an existing destination is left as it is
download_write_keeps_existing(m, res, file) ==
    IF file.exists THEN [result |-> TaskOk, file |-> file]
    ELSE [result |-> TaskOk, file |-> fs_write(fs_create(file), res, -1)]

download_write(m, res, file) ==
    IF m.file.filename \in env.createFails
    THEN [result |-> "BadFile", file |-> file]
    ELSE LET limit == env.writeLimit[m.file.filename]
             created == fs_create(file)
         IN  IF limit >= 0 /\ limit < Len(res)
             THEN [result |-> "BadFile", file |-> fs_write(created, res, limit)]
             ELSE [result |-> TaskOk, file |-> fs_write(created, res, limit)]

download_fetched(m, file) ==
    LET resp == env.fetch[m.file.url]
    IN  IF ~resp.ok THEN [result |-> "BadRequest", file |-> file]
        ELSE IF check512(m.file.sha512, Sha512(resp.bytes))
             THEN download_write(m, resp.bytes, file)
             ELSE download_mismatch(m, file)

----------------------------------------------------------------------------
(* The batch operation download_from_id_list2 *)

RECURSIVE FilterOk(_)
FilterOk(results) ==
    IF results = <<>> THEN <<>>
    ELSE (IF Head(results).ok THEN <<Head(results).mod>> ELSE <<>>)
         \o FilterOk(Tail(results))

collect_mods ==
    /\ pc = "idle"
    /\ hist.run < env.invocations
    /\ query' = build_query(env.mcvs, env.loader)
    /\ mods' = FilterOk([i \in 1..Len(ids) |-> build_from_project_id(ids[i])])
    /\ pc' = "resolve"
    /\ hist' = [hist EXCEPT !.mods0 = mods', !.passes = 0, !.pass_start = mods',
                            !.dir_start = dir, !.fetched = {}, !.returned = None]
    /\ UNCHANGED <<env, ids, deps_to_search, dep_versions, ver_idx, new_deps, tasks, dir>>

RECURSIVE AllDependencies(_)
AllDependencies(ms) ==
    IF ms = <<>> THEN <<>>
    ELSE Head(ms).dependencies \o AllDependencies(Tail(ms))

\* resolve_dependencies is entered: the dependencies of every entry are collected
\* and one version lookup per dependency is launched (join_all)
resolve_start ==
    /\ pc = "resolve"
    /\ deps_to_search' = AllDependencies(mods)
    /\ new_deps' = 0
    /\ dep_versions' = [i \in 1..Len(deps_to_search') |-> Pending]
    /\ ver_idx' = 0
    /\ pc' = IF Len(deps_to_search') = 0 THEN "process" ELSE "lookup"
    /\ hist' = [hist EXCEPT !.passes = @ + 1, !.pass_start = mods,
                            !.calls = [i \in 1..Len(deps_to_search') |-> RequestPending]]
    /\ UNCHANGED <<env, ids, query, mods, tasks, dir>>

\* mutant: the results are kept in the order of completion (the lookups completing
\* last first), not in the order of the input
lookup_done_completion_order(i) ==
    /\ pc = "lookup"
    /\ dep_versions[i] = Pending
    /\ \A j \in 1..(i - 1) : dep_versions[j] # Pending
    /\ dep_versions' = [dep_versions EXCEPT
                           ![i] = resolve_to_version(deps_to_search[Len(deps_to_search) + 1 - i])]
    /\ pc' = IF \A j \in 1..Len(dep_versions) : j # i => dep_versions[j] # Pending
             THEN "process" ELSE "lookup"
    /\ hist' = [hist EXCEPT !.calls[i] = registry_request(deps_to_search[i])]
    /\ UNCHANGED <<env, ids, query, mods, deps_to_search, ver_idx, new_deps, tasks, dir>>

\* one of the concurrent lookups completes; join_all keeps the input order
lookup_done(i) ==
    /\ pc = "lookup"
    /\ dep_versions[i] = Pending
    /\ dep_versions' = [dep_versions EXCEPT ![i] = resolve_to_version(deps_to_search[i])]
    /\ pc' = IF \A j \in 1..Len(dep_versions) : j # i => dep_versions[j] # Pending
             THEN "process" ELSE "lookup"
    /\ hist' = [hist EXCEPT !.calls[i] = registry_request(deps_to_search[i])]
    /\ UNCHANGED <<env, ids, query, mods, deps_to_search, ver_idx, new_deps, tasks, dir>>

\* mutant: the duplicate check never finds the project
already_present_never(ms, project_id) == FALSE

\* the in-flight duplicate check of the for loop
already_present(ms, project_id) ==
    \E i \in 1..Len(ms) : ModEqId(ms[i], project_id)

\* mutant: new_deps counts every resolved version, pushed or not
process_version_counts_resolved ==
    /\ pc = "process"
    /\ ver_idx < Len(dep_versions)
    /\ LET ver_res == dep_versions[ver_idx + 1]
           m == IF ver_res.ok THEN build_from_version(ver_res.ver) ELSE ErrMod(ver_res.err)
       IN  /\ mods' = IF /\ ver_res.ok
                         /\ ~already_present(mods, env.versions[ver_res.ver].project_id)
                         /\ m.ok
                      THEN Append(mods, m.mod) ELSE mods
           /\ new_deps' = IF ver_res.ok THEN (new_deps + 1) % U16 ELSE new_deps
    /\ ver_idx' = ver_idx + 1
    /\ UNCHANGED <<env, ids, query, pc, deps_to_search, dep_versions, tasks, dir, hist>>

\* mutant: a failed result ends the loop
process_version_stops_at_error ==
    /\ pc = "process"
    /\ ver_idx < Len(dep_versions)
    /\ LET ver_res == dep_versions[ver_idx + 1]
           m == IF ver_res.ok THEN build_from_version(ver_res.ver) ELSE ErrMod(ver_res.err)
       IN  /\ IF /\ ver_res.ok
                 /\ ~already_present(mods, env.versions[ver_res.ver].project_id)
                 /\ m.ok
              THEN /\ mods' = Append(mods, m.mod)
                   /\ new_deps' = (new_deps + 1) % U16
              ELSE UNCHANGED <<mods, new_deps>>
           /\ ver_idx' = IF m.ok THEN ver_idx + 1 ELSE Len(dep_versions)
    /\ UNCHANGED <<env, ids, query, pc, deps_to_search, dep_versions, tasks, dir, hist>>

\* mutant: a pass pushes at most one entry
process_version_one_per_pass ==
    /\ pc = "process"
    /\ ver_idx < Len(dep_versions)
    /\ LET ver_res == dep_versions[ver_idx + 1]
           m == IF ver_res.ok THEN build_from_version(ver_res.ver) ELSE ErrMod(ver_res.err)
       IN  IF /\ ver_res.ok
              /\ ~already_present(mods, env.versions[ver_res.ver].project_id)
              /\ m.ok
              /\ new_deps = 0
           THEN /\ mods' = Append(mods, m.mod)
                /\ new_deps' = (new_deps + 1) % U16
           ELSE UNCHANGED <<mods, new_deps>>
    /\ ver_idx' = ver_idx + 1
    /\ UNCHANGED <<env, ids, query, pc, deps_to_search, dep_versions, tasks, dir, hist>>

\* mutant: a version of a project that is present replaces the entry
process_version_replaces ==
    /\ pc = "process"
    /\ ver_idx < Len(dep_versions)
    /\ LET ver_res == dep_versions[ver_idx + 1]
           m == IF ver_res.ok THEN build_from_version(ver_res.ver) ELSE ErrMod(ver_res.err)
       IN  IF ver_res.ok /\ m.ok
           THEN IF already_present(mods, m.mod.project_id)
                THEN /\ mods' = [i \in 1..Len(mods) |->
                                   IF ModEqId(mods[i], m.mod.project_id) THEN m.mod
                                   ELSE mods[i]]
                     /\ UNCHANGED new_deps
                ELSE /\ mods' = Append(mods, m.mod)
                     /\ new_deps' = (new_deps + 1) % U16
           ELSE UNCHANGED <<mods, new_deps>>
    /\ ver_idx' = ver_idx + 1
    /\ UNCHANGED <<env, ids, query, pc, deps_to_search, dep_versions, tasks, dir, hist>>

\* one iteration of `for ver_res in dep_versions`
process_version ==
    /\ pc = "process"
    /\ ver_idx < Len(dep_versions)
    /\ LET ver_res == dep_versions[ver_idx + 1]
           m == IF ver_res.ok THEN build_from_version(ver_res.ver) ELSE ErrMod(ver_res.err)
       IN  IF /\ ver_res.ok
              /\ ~already_present(mods, env.versions[ver_res.ver].project_id)
              /\ m.ok
           THEN /\ mods' = Append(mods, m.mod)
                /\ new_deps' = (new_deps + 1) % U16
           ELSE UNCHANGED <<mods, new_deps>>
    /\ ver_idx' = ver_idx + 1
    /\ UNCHANGED <<env, ids, query, pc, deps_to_search, dep_versions, tasks, dir, hist>>

\* mutant: the pass never recurses
resolve_end_single_pass ==
    /\ pc = "process"
    /\ ver_idx = Len(dep_versions)
    /\ pc' = "launch"
    /\ UNCHANGED <<env, ids, query, mods, deps_to_search, dep_versions, ver_idx, new_deps,
                   tasks, dir, hist>>

\* the end of a pass: the recursive call, or the return
resolve_end ==
    /\ pc = "process"
    /\ ver_idx = Len(dep_versions)
    /\ pc' = IF new_deps > 0 THEN "resolve" ELSE "launch"
    /\ UNCHANGED <<env, ids, query, mods, deps_to_search, dep_versions, ver_idx, new_deps,
                   tasks, dir, hist>>

Fetching == [st |-> "fetching", result |-> None, verified |-> None]

\* join_all polls every download task once, in order: each runs to its first await
launch_downloads ==
    /\ pc = "launch"
    /\ tasks' = [i \in 1..Len(mods) |->
                   LET v == verify_against(mods[i], dir[mods[i].file.filename])
                   IN  IF v = "Ok"
                       THEN [st |-> "done", result |-> TaskOk, verified |-> v]
                       ELSE [Fetching EXCEPT !.verified = v]]
    /\ hist' = [hist EXCEPT !.fetched = {i \in 1..Len(mods) : tasks'[i].st = "fetching"},
                            !.dir_launch = dir]
    /\ pc' = "download"
    /\ UNCHANGED <<env, ids, query, mods, deps_to_search, dep_versions, ver_idx, new_deps, dir>>

\* the response of task i arrives
download_done(i) ==
    /\ pc = "download"
    /\ tasks[i].st = "fetching"
    /\ LET m == mods[i]
           out == download_fetched(m, dir[m.file.filename])
       IN  /\ tasks' = [tasks EXCEPT ![i].st = "done", ![i].result = out.result]
           /\ dir' = [dir EXCEPT ![m.file.filename] = out.file]
    /\ UNCHANGED <<env, ids, query, pc, mods, deps_to_search, dep_versions, ver_idx, new_deps, hist>>

\* mutant: the first error of a task is returned
join_downloads_propagates ==
    /\ pc = "download"
    /\ \A i \in 1..Len(tasks) : tasks[i].st = "done"
    /\ pc' = "idle"
    /\ hist' = [hist EXCEPT !.run = @ + 1,
                            !.dir_run1 = IF hist.run = 0 THEN dir ELSE @,
                            !.tasks_run1 = IF hist.run = 0 THEN tasks ELSE @,
                            !.returned = IF \E i \in 1..Len(tasks) : tasks[i].result # TaskOk
                                         THEN "Err" ELSE "Ok"]
    /\ UNCHANGED <<env, ids, query, mods, deps_to_search, dep_versions, ver_idx, new_deps, tasks, dir>>

\* every task is done: the errors are printed and the operation returns Ok(())
join_downloads ==
    /\ pc = "download"
    /\ \A i \in 1..Len(tasks) : tasks[i].st = "done"
    /\ pc' = "idle"
    /\ hist' = [hist EXCEPT !.run = @ + 1,
                            !.dir_run1 = IF hist.run = 0 THEN dir ELSE @,
                            !.tasks_run1 = IF hist.run = 0 THEN tasks ELSE @,
                            !.returned = "Ok"]
    /\ UNCHANGED <<env, ids, query, mods, deps_to_search, dep_versions, ver_idx, new_deps, tasks, dir>>

Next ==
    \/ collect_mods
    \/ resolve_start
    \/ \E i \in 1..Len(dep_versions) : lookup_done(i)
    \/ process_version
    \/ resolve_end
    \/ launch_downloads
    \/ \E i \in 1..Len(tasks) : download_done(i)
    \/ join_downloads

----------------------------------------------------------------------------
(* The single-id operation handle_single_input: verify_id or download_from_id *)

SomeFile(f) == [some |-> TRUE, file |-> f]
NoFile == [some |-> FALSE, file |-> None]

\* file_from_ver
file_from_ver(v) ==
    LET v_files == env.versions[v].files
        primary_idx == search_for_primary_file(v_files)
    IN  IF primary_idx.some THEN SomeFile(v_files[primary_idx.idx + 1]) ELSE NoFile

\* get_file_direct
get_file_direct(project_id) ==
    LET version == get_top_version(project_id)
    IN  IF version.ok THEN file_from_ver(version.ver) ELSE NoFile

\* download_already_exists
download_already_exists(file, f_in) ==
    IF ~file.exists THEN FALSE
    ELSE IF file.readable THEN f_in.sha512 = Sha512(file.bytes)
         ELSE FALSE

\* download_file, from the response of the fetch on
download_file_fetched(f_in, file) ==
    LET resp == env.fetch[f_in.url]
    IN  IF ~resp.ok THEN [result |-> "Err", file |-> file]
        ELSE IF f_in.sha512 = Sha512(resp.bytes)
        THEN IF f_in.filename \in env.createFails
             THEN [result |-> "Err", file |-> file]
             ELSE LET limit == env.writeLimit[f_in.filename]
                      written == fs_write(fs_create(file), resp.bytes, limit)
                  IN  IF limit >= 0 /\ limit < Len(resp.bytes)
                      THEN [result |-> "Err", file |-> written]
                      ELSE [result |-> "Ok", file |-> written]
        ELSE [result |-> "Ok", file |-> file]

\* verify_id: the file of the id is looked up and verified; nothing is returned
verify_id ==
    /\ pc = "idle"
    /\ hist.run < env.invocations
    /\ env.verify
    /\ query' = build_query(env.mcvs, env.loader)
    /\ LET f == get_file_direct(ids[1])
       IN  tasks' = IF f.some
                    THEN <<[st |-> "done", result |-> None,
                            verified |-> verify_file(f.file, dir[f.file.filename]),
                            f_in |-> f.file]>>
                    ELSE <<>>
    /\ hist' = [hist EXCEPT !.run = @ + 1, !.dir_start = dir, !.returned = "Ok"]
    /\ UNCHANGED <<env, ids, pc, mods, deps_to_search, dep_versions, ver_idx, new_deps, dir>>

\* download_from_id up to the fetch of download_file, or to its return without one
download_from_id ==
    /\ pc = "idle"
    /\ hist.run < env.invocations
    /\ ~env.verify
    /\ query' = build_query(env.mcvs, env.loader)
    /\ LET f == get_file_direct(ids[1])
       IN  IF ~f.some
           THEN /\ tasks' = <<>>
                /\ pc' = "idle"
                /\ hist' = [hist EXCEPT !.run = @ + 1, !.dir_start = dir, !.returned = "Ok"]
           ELSE IF download_already_exists(dir[f.file.filename], f.file)
           THEN /\ tasks' = <<[st |-> "done", result |-> "Ok", verified |-> "Ok",
                               f_in |-> f.file]>>
                /\ pc' = "idle"
                /\ hist' = [hist EXCEPT !.run = @ + 1, !.dir_start = dir, !.returned = "Ok"]
           ELSE /\ tasks' = <<[st |-> "fetching", result |-> None, verified |-> None,
                               f_in |-> f.file]>>
                /\ pc' = "single_fetch"
                /\ hist' = [hist EXCEPT !.dir_start = dir, !.returned = None]
    /\ UNCHANGED <<env, ids, mods, deps_to_search, dep_versions, ver_idx, new_deps, dir>>

\* the response of the fetch arrives: download_file finishes and download_from_id
\* returns its error, or Ok(())
download_file_done ==
    /\ pc = "single_fetch"
    /\ LET f_in == tasks[1].f_in
           out == download_file_fetched(f_in, dir[f_in.filename])
       IN  /\ tasks' = <<[tasks[1] EXCEPT !.st = "done", !.result = out.result]>>
           /\ dir' = [dir EXCEPT ![f_in.filename] = out.file]
           /\ hist' = [hist EXCEPT !.run = @ + 1, !.returned = out.result]
    /\ pc' = "idle"
    /\ UNCHANGED <<env, ids, query, mods, deps_to_search, dep_versions, ver_idx, new_deps>>

SingleNext ==
    \/ verify_id
    \/ download_from_id
    \/ download_file_done

----------------------------------------------------------------------------
(* The list operation in verify mode: handle_list_input with verify set     *)
(* calls verify_ids_from_list; together with the single-id operation        *)

\* collect_files: one get_file_direct per id, joined in the order of the ids
collect_files(id_list) == [i \in 1..Len(id_list) |-> get_file_direct(id_list[i])]

\* the summary verify_ids_from_list prints after its loop
Report(bad_results, total) ==
    [all_verified |-> ~(bad_results > 0), bad |-> bad_results, total |-> total]

\* verify_ids_from_list: the ids that yield a file are verified one by one and the
\* summary is printed; nothing is returned
verify_ids_from_list ==
    /\ pc = "idle"
    /\ hist.run < env.invocations
    /\ env.verify
    /\ query' = build_query(env.mcvs, env.loader)
    /\ LET found == SelectSeq(collect_files(ids), LAMBDA f : f.some)
           mod_files == [i \in 1..Len(found) |-> found[i].file]
           verified == [i \in 1..Len(mod_files) |->
                           verify_file(mod_files[i], dir[mod_files[i].filename])]
           bad_results == Cardinality({i \in 1..Len(mod_files) : verified[i] # "Ok"})
       IN  /\ tasks' = [i \in 1..Len(mod_files) |->
                           [st |-> "done", result |-> None, verified |-> verified[i],
                            f_in |-> mod_files[i]]]
           /\ hist' = [hist EXCEPT !.run = @ + 1, !.dir_start = dir, !.returned = "Ok",
                                    !.reports = Append(@, Report(bad_results, Len(mod_files)))]
    /\ UNCHANGED <<env, ids, pc, mods, deps_to_search, dep_versions, ver_idx, new_deps, dir>>

\* either operation is invoked on the id list, the single-id one on its first id
VerifyNext ==
    \/ verify_ids_from_list
    \/ verify_id
    \/ download_from_id
    \/ download_file_done

----------------------------------------------------------------------------
(* Mod::get_dependencies: the dependencies of one mod, resolved one after   *)
(* the other, with an optional list of mods to check against                *)

\* Option<&Vec<Mod>>: of the mods only project_id is read
SomeMods(ms) == [some |-> TRUE, mods |-> ms]
NoMods == [some |-> FALSE, mods |-> <<>>]

\* check_set: Option<HashSet<&String>>
check_set(check_against) ==
    IF check_against.some
    THEN [some |-> TRUE,
          set |-> {check_against.mods[i].project_id : i \in 1..Len(check_against.mods)}]
    ELSE [some |-> FALSE, set |-> {}]

\* Mod::check_dep_against
check_dep_against(dep_ver, check) ==
    IF check.some /\ env.versions[dep_ver].project_id \in check.set THEN FALSE ELSE TRUE

\* get_dependencies is called on the mod built from env.self
get_dependencies_start ==
    /\ pc = "idle"
    /\ hist.run < env.invocations
    /\ deps_to_search' = build_from_version(env.self).mod.dependencies
    /\ dep_versions' = [i \in 1..Len(deps_to_search') |-> Pending]
    /\ ver_idx' = 0
    /\ mods' = <<>>
    /\ pc' = "deps"
    /\ hist' = [hist EXCEPT !.calls = [i \in 1..Len(deps_to_search') |-> RequestPending]]
    /\ UNCHANGED <<env, ids, query, new_deps, tasks, dir>>

\* one iteration of `for dep in self.dependencies()`
get_dependencies_step ==
    /\ pc = "deps"
    /\ ver_idx < Len(deps_to_search)
    /\ LET dep == deps_to_search[ver_idx + 1]
           dep_ver == resolve_to_version(dep)
           m == IF dep_ver.ok /\ check_dep_against(dep_ver.ver, check_set(env.check_against))
                THEN build_from_version(dep_ver.ver) ELSE ErrMod("skipped")
       IN  /\ dep_versions' = [dep_versions EXCEPT ![ver_idx + 1] = dep_ver]
           /\ hist' = [hist EXCEPT !.calls[ver_idx + 1] = registry_request(dep)]
           /\ mods' = IF m.ok THEN Append(mods, m.mod) ELSE mods
    /\ ver_idx' = ver_idx + 1
    /\ UNCHANGED <<env, ids, query, pc, deps_to_search, new_deps, tasks, dir>>

\* the loop is over: `out` is returned
get_dependencies_return ==
    /\ pc = "deps"
    /\ ver_idx = Len(deps_to_search)
    /\ pc' = "idle"
    /\ hist' = [hist EXCEPT !.run = @ + 1, !.returned = "Ok"]
    /\ UNCHANGED <<env, ids, query, mods, deps_to_search, dep_versions, ver_idx, new_deps,
                   tasks, dir>>

DepsNext ==
    \/ get_dependencies_start
    \/ get_dependencies_step
    \/ get_dependencies_return

----------------------------------------------------------------------------
(* The environments and requests of the model *)

\* the bytes the registry's digest of a version's primary file stands for
GoodBytes(v) ==
    CASE v = "a1" -> <<1, 1>>
      [] v = "b1" -> <<2, 2>>
      [] v = "b2" -> <<2, 1>>
      [] v = "c1" -> <<3, 3>>

Junk == <<4>>

File(url, filename, primary, bytes) ==
    [url |-> url, filename |-> filename, primary |-> primary, sha512 |-> Sha512(bytes)]

ProjectOf(v) ==
    CASE v = "a1" -> "A"
      [] v \in {"b1", "b2"} -> "B"
      [] v = "c1" -> "C"

\* a1 carries a secondary file before its primary one
FilesOf(v, filename) ==
    IF v = "a1"
    THEN <<File("a1-sources", "h.jar", FALSE, Junk), File(v, filename, TRUE, GoodBytes(v))>>
    ELSE <<File(v, filename, FALSE, GoodBytes(v))>>

Urls == VersionIds \cup {"a1-sources"}

BaseTop ==
    [p \in ProjectIds |->
        [ok |-> TRUE,
         list |-> CASE p = "A" -> <<"a1">>
                    [] p = "B" -> <<"b1", "b2">>
                    [] p = "C" -> <<"c1">>]]

\* a registry: deps and names give each version's dependency list and filename
Registry(deps, names, fault) ==
    [versions |-> [v \in VersionIds |->
                     [project_id |-> ProjectOf(v),
                      files |-> IF fault = "noFile" /\ v = "b1" THEN <<>>
                                ELSE FilesOf(v, names[v]),
                      dependencies |-> deps[v]]],
     top      |-> CASE fault = "topFail"  -> [BaseTop EXCEPT !["B"].ok = FALSE]
                    [] fault = "topEmpty" -> [BaseTop EXCEPT !["C"].list = <<>>]
                    [] OTHER -> BaseTop,
     verOk    |-> IF fault = "verFail" THEN VersionIds \ {"b2"} ELSE VersionIds,
     projOk   |-> IF fault = "projFail" THEN ProjectIds \ {"C"} ELSE ProjectIds]

Faults == {"none", "verFail", "topFail", "topEmpty", "projFail", "noFile"}

DepAlphabet ==
    {Dep(None, "B"), Dep("b2", None), Dep(None, "C"), Dep("b2", "C"), Dep(None, None)}

DepLists ==
    [a1 : SeqsUpTo(DepAlphabet, MaxDeps),
     b1 : {<<>>, <<Dep(None, "C")>>, <<Dep(None, "A")>>},
     b2 : {<<Dep(None, "C")>>},
     c1 : {<<>>, <<Dep(None, "A")>>}]

\* the configuration of the scenarios that do not vary it: --mcvs and the loader
DefaultConf == [mcvs |-> <<"a", ",", "b">>, loader |-> <<"f">>]

\* the requested id lists of the resolver scenarios
Requests == {<<"A">>, <<"B">>, <<"A", "B">>, <<"B", "A">>, <<"A", "A">>}

DistinctNames == [a1 |-> "f.jar", b1 |-> "g.jar", b2 |-> "g.jar", c1 |-> "h.jar"]

GoodServer == [u \in Urls |-> [ok |-> TRUE, bytes |-> IF u \in VersionIds THEN GoodBytes(u) ELSE Junk]]

EmptyDir == [f \in Filenames |-> NotExists]

InitProgram ==
    /\ pc = "idle"
    /\ query = NoQuery
    /\ mods = <<>>
    /\ deps_to_search = <<>>
    /\ dep_versions = <<>>
    /\ ver_idx = 0
    /\ new_deps = 0
    /\ tasks = <<>>
    /\ hist = [run |-> 0, mods0 |-> <<>>, pass_start |-> <<>>, passes |-> 0,
               dir_start |-> dir, dir_launch |-> dir, dir_run1 |-> dir,
               tasks_run1 |-> <<>>, fetched |-> {}, returned |-> None,
               calls |-> <<>>, reports |-> <<>>]

\* resolver scenarios: every registry shape and fault, a healthy file server and disk
Init ==
    /\ \E deps \in DepLists, fault \in Faults :
          env = Registry(deps, DistinctNames, fault) @@
                [fetch |-> GoodServer, createFails |-> {},
                 writeLimit |-> [f \in Filenames |-> -1], invocations |-> 1] @@
                DefaultConf
    /\ ids \in Requests
    /\ dir = EmptyDir
    /\ InitProgram

Spec == Init /\ [][Next]_vars

\* the runtime drives the operation on: some enabled step is eventually taken
FairSpec == Spec /\ WF_vars(Next)

\* download scenarios: a small registry, every state of the file server, of the
\* destination paths and of the disk, and the batch invoked MaxRuns times
Corrupt(u) == [ok |-> TRUE, bytes |-> Junk]
Failing(u) == [ok |-> FALSE, bytes |-> <<>>]

Servers ==
    {[GoodServer EXCEPT !["a1"] = ra, !["b1"] = rb] :
        ra \in {GoodServer["a1"], Corrupt("a1"), Failing("a1")},
        rb \in {GoodServer["b1"], Corrupt("b1"), Failing("b1")}}

Dirs ==
    {[EmptyDir EXCEPT !["f.jar"] = sf, !["g.jar"] = sg] :
        sf \in {NotExists, FileWith(GoodBytes("a1"), TRUE), FileWith(GoodBytes("b1"), TRUE),
                FileWith(Junk, TRUE), FileWith(Junk, FALSE)},
        sg \in {NotExists, FileWith(GoodBytes("b1"), TRUE), FileWith(Junk, TRUE)}}

NoLimit == [f \in Filenames |-> -1]

Disks ==
    {[createFails |-> {}, writeLimit |-> NoLimit],
     [createFails |-> {"f.jar"}, writeLimit |-> NoLimit],
     [createFails |-> {"g.jar"}, writeLimit |-> NoLimit],
     [createFails |-> {}, writeLimit |-> [NoLimit EXCEPT !["f.jar"] = 1]],
     [createFails |-> {}, writeLimit |-> [NoLimit EXCEPT !["g.jar"] = 0]]}

DownloadDepLists ==
    [a1 : {<<>>, <<Dep(None, "B")>>}, b1 : {<<>>}, b2 : {<<>>}, c1 : {<<>>}]

DownloadNames ==
    {[DistinctNames EXCEPT !["b1"] = n] : n \in {"f.jar", "g.jar"}}

DownloadInit ==
    /\ \E deps \in DownloadDepLists, names \in DownloadNames,
          server \in Servers, disk \in Disks :
          env = Registry(deps, names, "none") @@ disk @@
                [fetch |-> server, invocations |-> MaxRuns] @@ DefaultConf
    /\ ids \in SeqsUpTo({"A", "B"}, MaxIds)
    /\ dir \in Dirs
    /\ InitProgram

DownloadSpec == DownloadInit /\ [][Next]_vars

\* query scenarios: every --mcvs string up to MaxParam characters, a few loader
\* strings, one request with one dependency
ParamChars == {"a", "b", Comma}

Loaders == {<<>>, <<"f">>, <<"f", Comma>>}

ParamDepLists == [a1 |-> <<Dep(None, "B")>>, b1 |-> <<>>, b2 |-> <<>>, c1 |-> <<>>]

ParamInit ==
    /\ \E mcvs \in SeqsUpTo(ParamChars, MaxParam), loader \in Loaders :
          env = Registry(ParamDepLists, DistinctNames, "none") @@
                [fetch |-> GoodServer, createFails |-> {}, writeLimit |-> NoLimit,
                 invocations |-> 1, mcvs |-> mcvs, loader |-> loader]
    /\ ids = <<"A">>
    /\ dir = EmptyDir
    /\ InitProgram

ParamSpec == ParamInit /\ [][Next]_vars

\* single-id scenarios: one id, every registry fault, every state of the file
\* server, of the destination paths and of the disk, in both modes
SingleInit ==
    /\ \E fault \in Faults, server \in Servers, disk \in Disks, verify \in BOOLEAN :
          env = Registry(ParamDepLists, DistinctNames, fault) @@ disk @@
                [fetch |-> server, invocations |-> 1, verify |-> verify] @@ DefaultConf
    /\ \E id \in ProjectIds : ids = <<id>>
    /\ dir \in Dirs
    /\ InitProgram

SingleSpec == SingleInit /\ [][SingleNext]_vars

\* verification scenarios: every list of up to MaxIds ids, every registry fault and
\* every state of the destination paths, in both modes, invoked MaxRuns times
VerifyInit ==
    /\ \E fault \in Faults, verify \in BOOLEAN :
          env = Registry(ParamDepLists, DistinctNames, fault) @@
                [fetch |-> GoodServer, createFails |-> {}, writeLimit |-> NoLimit,
                 invocations |-> MaxRuns, verify |-> verify] @@ DefaultConf
    /\ ids \in SeqsUpTo(ProjectIds, MaxIds) \ {<<>>}
    /\ dir \in Dirs
    /\ InitProgram

VerifySpec == VerifyInit /\ [][VerifyNext]_vars

\* get_dependencies scenarios: the mod of version a1 with every dependency list,
\* every registry fault, and no list or a list of mods to check against
CheckLists ==
    {NoMods} \cup
    {SomeMods([i \in 1..Len(ps) |-> [project_id |-> ps[i]]]) :
        ps \in {<<>>, <<"B">>, <<"C">>, <<"B", "C">>, <<"A", "B">>}}

DepsInit ==
    /\ \E d \in SeqsUpTo(DepAlphabet, MaxDeps), fault \in Faults, check \in CheckLists :
          env = Registry([ParamDepLists EXCEPT !["a1"] = d], DistinctNames, fault) @@
                [fetch |-> GoodServer, createFails |-> {}, writeLimit |-> NoLimit,
                 invocations |-> 1, self |-> "a1", check_against |-> check] @@ DefaultConf
    /\ ids = <<>>
    /\ dir = EmptyDir
    /\ InitProgram

DepsSpec == DepsInit /\ [][DepsNext]_vars

\* batch scenarios: every registry fault with every state of the file server and of
\* the disk, on an empty directory
BatchDepLists ==
    {[ParamDepLists EXCEPT !["a1"] = d] :
        d \in {<<>>, <<Dep(None, "B")>>, <<Dep(None, "B"), Dep(None, "C")>>}}

BatchInit ==
    /\ \E deps \in BatchDepLists, fault \in Faults, server \in Servers, disk \in Disks :
          env = Registry(deps, DistinctNames, fault) @@ disk @@
                [fetch |-> server, invocations |-> 1] @@ DefaultConf
    /\ ids \in Requests
    /\ dir = EmptyDir
    /\ InitProgram

BatchSpec == BatchInit /\ [][Next]_vars

\* file-selection scenarios: the versions a1 (requested) and b1 (a dependency)
\* carry every list of up to MaxFiles files, each marked primary or not
NameAt(k) == IF k = 1 THEN "f.jar" ELSE IF k = 2 THEN "g.jar" ELSE "h.jar"

FileAt(v, k, primary) ==
    [url |-> <<v, k>>, filename |-> NameAt(k), primary |-> primary, sha512 |-> Sha512(<<k>>)]

FileLists(v) ==
    {[k \in 1..Len(flags) |-> FileAt(v, k, flags[k])] : flags \in SeqsUpTo(BOOLEAN, MaxFiles)}

FilesRegistry(fa, fb) ==
    LET reg == Registry(ParamDepLists, DistinctNames, "none")
    IN  [reg EXCEPT !.versions["a1"].files = fa, !.versions["b1"].files = fb]

FilesServer ==
    [u \in VersionIds \X (1..(MaxFiles + 1)) |-> [ok |-> TRUE, bytes |-> <<u[2]>>]]

FilesInit ==
    /\ \E fa \in FileLists("a1"), fb \in FileLists("b1") :
          env = FilesRegistry(fa, fb) @@
                [fetch |-> FilesServer, createFails |-> {}, writeLimit |-> NoLimit,
                 invocations |-> 1] @@ DefaultConf
    /\ ids = <<"A">>
    /\ dir = EmptyDir
    /\ InitProgram

FilesSpec == FilesInit /\ [][Next]_vars

----------------------------------------------------------------------------
(* Vocabulary of the properties *)

Distinct(ms) ==
    \A i, j \in 1..Len(ms) : i # j => ms[i].project_id # ms[j].project_id

Returned == pc = "launch"

AllLookupsSucceed ==
    /\ env.verOk = VersionIds
    /\ env.projOk = ProjectIds
    /\ \A p \in ProjectIds : env.top[p].ok /\ Len(env.top[p].list) > 0
    /\ \A v \in VersionIds : Len(env.versions[v].files) > 0

\* the versions the dependency records of version v resolve to
EdgesOf(v) ==
    {resolve_to_version(d).ver :
        d \in {e \in RangeOf(env.versions[v].dependencies) : resolve_to_version(e).ok}}

\* every version reachable through required-dependency edges
RECURSIVE ReachVersions(_)
ReachVersions(S) ==
    LET next == S \cup UNION {EdgesOf(v) : v \in S}
    IN  IF next = S THEN S ELSE ReachVersions(next)

ReachProjects(ms) ==
    {env.versions[v].project_id : v \in ReachVersions({ms[i].version_id : i \in 1..Len(ms)})}

\* the projects reachable from P through the edges of the entries of ms alone
RECURSIVE KeptReach(_, _)
KeptReach(P, ms) ==
    LET next == P \cup UNION {{env.versions[v].project_id : v \in EdgesOf(ms[i].version_id)} :
                                 i \in {k \in 1..Len(ms) : ms[k].project_id \in P}}
    IN  IF next = P THEN P ELSE KeptReach(next, ms)

\* no project has two reachable versions
NoConflict(ms) ==
    \A v, w \in ReachVersions({ms[i].version_id : i \in 1..Len(ms)}) :
        env.versions[v].project_id = env.versions[w].project_id => v = w

\* every dependency of every entry that resolves leads to a project of the set
Closed(ms) ==
    \A i \in 1..Len(ms) : \A d \in RangeOf(ms[i].dependencies) :
        resolve_to_version(d).ok =>
            env.versions[resolve_to_version(d).ver].project_id \in ProjectsOf(ms)

----------------------------------------------------------------------------
(* C1 as stated: on return, with every lookup succeeding and every version  *)
(* having a file, the projectIds of mods are exactly the projectIds         *)
(* reachable from the initial mods through required-dependency edges, each  *)
(* present once.  Refuted: a project reached through a version that lost    *)
(* the first-wins tie is absent.                                            *)
C1_ExactlyReachable ==
    (Returned /\ AllLookupsSucceed /\ Distinct(hist.mods0)) =>
        /\ ProjectsOf(mods) = ReachProjects(hist.mods0)
        /\ Distinct(mods)

(* C1 amended: on return, with every lookup succeeding and every version    *)
(* having a file, the projectIds of mods are exactly those reachable from   *)
(* the initial mods through the dependency edges of the entries kept in     *)
(* mods (one version per project, the first materialized), all of them      *)
(* reachable in the registry; the two sets coincide when no project has two *)
(* reachable versions; resolution adds no projectId twice.                  *)
C1_ClosureOfKeptEntries ==
    (Returned /\ AllLookupsSucceed) =>
        /\ ProjectsOf(mods) = KeptReach(ProjectsOf(hist.mods0), mods)
        /\ ProjectsOf(mods) \subseteq ReachProjects(hist.mods0)
        /\ NoConflict(hist.mods0) => ProjectsOf(mods) = ReachProjects(hist.mods0)
        /\ Distinct(hist.mods0) => Distinct(mods)

\* witness: a closure of three projects built over at least two passes
C1_Witness ==
    /\ Returned /\ AllLookupsSucceed
    /\ Len(hist.mods0) = 1
    /\ ProjectsOf(mods) = ProjectIds
    /\ hist.passes >= 3

----------------------------------------------------------------------------
(* C2: from an initial set with pairwise distinct projectIds, no two        *)
(* entries of mods ever share a projectId, in every state of every pass     *)
C2_UniqueProjectIds ==
    Distinct(hist.mods0) => Distinct(mods)

\* witness: two edges of one pass resolved to the same new project; the first was
\* pushed and the second dropped
C2_Witness ==
    /\ pc = "process"
    /\ Distinct(hist.mods0)
    /\ \E i, j \in 1..ver_idx :
          /\ i < j
          /\ dep_versions[i].ok /\ dep_versions[j].ok
          /\ dep_versions[i].ver # dep_versions[j].ver
          /\ env.versions[dep_versions[i].ver].project_id
               = env.versions[dep_versions[j].ver].project_id
          /\ env.versions[dep_versions[i].ver].project_id \notin ProjectsOf(hist.pass_start)
          /\ env.versions[dep_versions[i].ver].project_id \in ProjectsOf(mods)

----------------------------------------------------------------------------
(* C3: resolve_dependencies terminates for every registry, cyclic ones and  *)
(* ones with permanently failing lookups included: a pass that is followed  *)
(* by another pass has strictly increased the number of entries of mods, so *)
(* the number of passes is bounded by the projects not yet in the set, and  *)
(* inside a pass the operation always has a next step                       *)
Resolving == pc \in {"resolve", "lookup", "process"}

C3_Terminates ==
    /\ (pc = "resolve" /\ hist.passes > 0) => Len(mods) > Len(hist.pass_start)
    /\ hist.passes <= Cardinality(ProjectIds \ ProjectsOf(hist.mods0)) + 1
    /\ ver_idx <= Len(dep_versions)
    /\ Resolving => ENABLED Next

\* C3, as a liveness property under FairSpec: every call returns
C3_EveryCallReturns ==
    [](pc = "resolve" => <>Returned)

\* witness: a return after several passes over a cyclic graph (a dependency of a
\* later entry leads back to the requested project)
C3_Witness ==
    /\ Returned
    /\ hist.passes >= 2
    /\ \E i, j \in 1..Len(mods) :
          /\ i < j
          /\ \E d \in RangeOf(mods[j].dependencies) :
                resolve_to_version(d).ok /\ resolve_to_version(d).ver = mods[i].version_id
          /\ \E d \in RangeOf(mods[i].dependencies) :
                resolve_to_version(d).ok /\ resolve_to_version(d).ver = mods[j].version_id

----------------------------------------------------------------------------
(* C9: a dependency record with neither id resolves to NoDependency; an     *)
(* edge that is unresolvable, whose lookup fails or whose version has no    *)
(* selectable file adds no entry, and the siblings of the pass are added    *)
(* all resolved and added exactly as if the failing edges were not there    *)

\* the edge resolves and its version can be materialized
GoodEdge(r) == r.ok /\ build_from_version(r.ver).ok

\* the entries a list of good edges adds to ms, first come first kept
RECURSIVE AddAll(_, _)
AddAll(ms, rs) ==
    IF rs = <<>> THEN ms
    ELSE LET m == build_from_version(Head(rs).ver).mod
         IN  AddAll(IF m.project_id \in ProjectsOf(ms) THEN ms ELSE Append(ms, m), Tail(rs))

C9_FailingEdgesIsolated ==
    /\ pc \in {"lookup", "process"} =>
          \A i \in 1..Len(deps_to_search) :
              (deps_to_search[i] = Dep(None, None) /\ dep_versions[i] # Pending)
                  => dep_versions[i] = ErrVer("NoDependency")
    /\ pc = "process" =>
          /\ \A i \in 1..Len(deps_to_search) :
                dep_versions[i] = resolve_to_version(deps_to_search[i])
          /\ mods = AddAll(hist.pass_start,
                           SelectSeq(SubSeq(dep_versions, 1, ver_idx), GoodEdge))

\* witness: in one finished pass an unresolvable edge, an edge whose lookup failed
\* or whose version has no file, and a later sibling that was added
C9_Witness ==
    /\ pc = "process" /\ ver_idx = Len(dep_versions)
    /\ \E i, j, k \in 1..Len(dep_versions) :
          /\ i < k /\ j < k
          /\ dep_versions[i].err = "NoDependency"
          /\ dep_versions[j].err = "BadRequest" \/ (dep_versions[j].ok /\ ~GoodEdge(dep_versions[j]))
          /\ GoodEdge(dep_versions[k])
          /\ env.versions[dep_versions[k].ver].project_id \notin ProjectsOf(hist.pass_start)
          /\ env.versions[dep_versions[k].ver].project_id \in ProjectsOf(mods)

----------------------------------------------------------------------------
(* C10: a pass of resolve_dependencies over a set that is closed under      *)
(* required-dependency edges adds zero entries and leaves mods as it was:   *)
(* same entries, same versions, same order; the call returns after it       *)
C10_ClosedSetUnchanged ==
    (pc \in {"lookup", "process"} /\ Closed(hist.pass_start)) =>
        /\ mods = hist.pass_start
        /\ new_deps = 0

\* witness: a finished pass over a closed set whose dependencies all resolved
C10_Witness ==
    /\ pc = "process" /\ ver_idx = Len(dep_versions)
    /\ Closed(hist.pass_start)
    /\ Len(dep_versions) >= 2
    /\ \A i \in 1..Len(dep_versions) : GoodEdge(dep_versions[i])
    /\ mods = hist.pass_start

----------------------------------------------------------------------------
(* Vocabulary of the download properties *)

PathOf(i) == mods[i].file.filename

Response(i) == env.fetch[mods[i].file.url]

\* the fetched bytes' digest does not match contentHash
Mismatch(i) ==
    Response(i).ok /\ ~check512(mods[i].file.sha512, Sha512(Response(i).bytes))

Match(i) ==
    Response(i).ok /\ check512(mods[i].file.sha512, Sha512(Response(i).bytes))

\* File::create and write_all both succeed on the path of task i
WriteSucceeds(i) ==
    /\ PathOf(i) \notin env.createFails
    /\ ~(env.writeLimit[PathOf(i)] >= 0 /\ env.writeLimit[PathOf(i)] < Len(Response(i).bytes))

\* the step in which the response of task i arrives and the task finishes
Completes(i) ==
    pc = "download" /\ tasks[i].st = "fetching" /\ tasks'[i].st = "done"

AllDone == pc = "download" /\ \A i \in 1..Len(tasks) : tasks[i].st = "done"

IsError(result) == result \in {"BadRequest", "BadFile", "BadHash"}

----------------------------------------------------------------------------
(* C4: when the fetched bytes' digest does not match contentHash, the       *)
(* download of that entry returns a BadHash download error.  The code       *)
(* builds the error value and drops it: the task returns Ok(()).            *)
C4_MismatchReportsBadHash ==
    \A i \in 1..Len(tasks) :
        (tasks[i].st = "done" /\ i \in hist.fetched /\ Mismatch(i))
            => tasks[i].result = "BadHash"

----------------------------------------------------------------------------
(* C5: when the fetched bytes' digest does not match contentHash, the       *)
(* download writes nothing: the output directory, the destination path      *)
(* included, is after the step exactly what it was before                   *)
C5_MismatchWritesNothing ==
    [][\A i \in 1..Len(tasks) : (Completes(i) /\ Mismatch(i)) => dir' = dir]_vars

\* witness: a task found a stale copy, fetched mismatching bytes and finished; the
\* stale copy is still at the path
C5_Witness ==
    /\ pc = "download"
    /\ \E i \in 1..Len(tasks) :
          /\ tasks[i].st = "done" /\ i \in hist.fetched /\ Mismatch(i)
          /\ tasks[i].verified = "BadHash"
          /\ dir[PathOf(i)] = hist.dir_launch[PathOf(i)]
          /\ dir[PathOf(i)].bytes # <<>>

----------------------------------------------------------------------------
(* C6: running the batch twice against an unchanged registry and directory  *)
(* leaves the directory after the second run as it was after the first, and *)
(* the second run fetches nothing for an entry whose file verifies Ok.      *)
(* Refuted when two entries of the batch share a filename.                  *)
C6_SecondRunChangesNothing ==
    (pc = "idle" /\ hist.run = 2) =>
        /\ dir = hist.dir_run1
        /\ \A i \in 1..Len(tasks) :
              verify_against(mods[i], hist.dir_launch[PathOf(i)]) = "Ok"
                  => (i \notin hist.fetched /\ tasks[i].result = TaskOk)

----------------------------------------------------------------------------
(* C7 as stated: after a verification of NotExists, BadHash or BadFile, a   *)
(* matching fetch and a successful write, the path holds exactly the        *)
(* fetched bytes, success is reported and a verification of the path        *)
(* reports Ok.  Refuted after BadFile: the rewritten file is as unreadable  *)
(* as before.                                                               *)
C7_WrittenFileVerifiesOk ==
    [][\A i \in 1..Len(tasks) :
          (Completes(i) /\ Match(i) /\ WriteSucceeds(i)) =>
              /\ dir'[PathOf(i)].exists
              /\ dir'[PathOf(i)].bytes = Response(i).bytes
              /\ tasks'[i].result = TaskOk
              /\ verify_against(mods[i], dir'[PathOf(i)]) = "Ok"]_vars

(* C7 amended: after a verification of NotExists, BadHash or BadFile, a     *)
(* matching fetch and a successful write, the path holds exactly the        *)
(* fetched bytes and success is reported; a verification of the path then   *)
(* reports Ok when the file is readable (always after NotExists or          *)
(* BadHash) and BadFile when it is still unreadable.                        *)
C7_WrittenFileHoldsFetchedBytes ==
    [][\A i \in 1..Len(tasks) :
          (Completes(i) /\ Match(i) /\ WriteSucceeds(i)) =>
              /\ tasks[i].verified \in {"NotExists", "BadHash", "BadFile"}
              /\ dir'[PathOf(i)].exists
              /\ dir'[PathOf(i)].bytes = Response(i).bytes
              /\ tasks'[i].result = TaskOk
              /\ verify_against(mods[i], dir'[PathOf(i)])
                   = IF dir'[PathOf(i)].readable THEN "Ok" ELSE "BadFile"
              /\ tasks[i].verified \in {"NotExists", "BadHash"}
                   => verify_against(mods[i], dir'[PathOf(i)]) = "Ok"]_vars

\* witness: a stale readable copy was replaced by the fetched bytes and now verifies
C7_Witness ==
    /\ pc = "download"
    /\ \E i \in 1..Len(tasks) :
          /\ tasks[i].st = "done" /\ i \in hist.fetched
          /\ tasks[i].verified = "BadHash"
          /\ hist.dir_launch[PathOf(i)].bytes # <<>>
          /\ Match(i) /\ WriteSucceeds(i)
          /\ tasks[i].result = TaskOk
          /\ verify_against(mods[i], dir[PathOf(i)]) = "Ok"

----------------------------------------------------------------------------
(* C8: in a batch of download tasks a transport, hash or write failure of   *)
(* one task is reported as an error for that entry, and every other task    *)
(* runs to completion with the outcome and destination file it would have   *)
(* had without the failing task.  Refuted: a hash failure is reported as    *)
(* success (C4).                                                            *)
Failed(i) ==
    i \in hist.fetched /\ (~Response(i).ok \/ Mismatch(i) \/ ~WriteSucceeds(i))

\* task j run alone from the directory the batch was launched on
Solo(j) ==
    LET file == hist.dir_launch[PathOf(j)]
    IN  IF verify_against(mods[j], file) = "Ok"
        THEN [result |-> TaskOk, file |-> file]
        ELSE download_fetched(mods[j], file)

C8_FailureStaysWithItsEntry ==
    AllDone =>
        \A i \in 1..Len(tasks) :
            Failed(i) =>
                /\ IsError(tasks[i].result)
                /\ \A j \in 1..Len(tasks) :
                      (/\ j # i /\ ~Failed(j)
                       /\ \A k \in 1..Len(tasks) : k \notin {i, j} => PathOf(k) # PathOf(j))
                          => /\ tasks[j].result = Solo(j).result
                             /\ dir[PathOf(j)] = Solo(j).file

----------------------------------------------------------------------------
(* Vocabulary of the query properties *)

CommaPos(s) == {i \in 1..Len(s) : s[i] = Comma}

\* the number of elements the input asks for: its commas plus one
NumElems(s) == Cardinality(CommaPos(s)) + 1

\* the k-th cut of s: position 0, the commas in order, and the position after the end
Cut(s, k) ==
    LET cuts == {0} \cup CommaPos(s) \cup {Len(s) + 1}
    IN  CHOOSE c \in cuts : Cardinality({d \in cuts : d < c}) = k - 1

\* the k-th token: the characters between the k-th cut and the next one
Token(s, k) == SubSeq(s, Cut(s, k) + 1, Cut(s, k + 1) - 1)

\* out is "[" e1 "," e2 ... "]" where element k is the k-th token of s in quotes
RendersTokens(s, out) ==
    /\ Len(out) = Len(s) + 2 * NumElems(s) + 2
    /\ out[1] = "[" /\ out[Len(out)] = "]"
    /\ \A k \in 1..NumElems(s) :
          /\ out[Cut(s, k) + 2 * k] = Quote
          /\ SubSeq(out, Cut(s, k) + 2 * k + 1, Cut(s, k + 1) + 2 * k - 1) = Token(s, k)
          /\ out[Cut(s, k + 1) + 2 * k] = Quote
          /\ k > 1 => out[Cut(s, k) + 2 * k - 1] = Comma
    /\ Cardinality({i \in 1..Len(out) : out[i] = Quote}) = 2 * NumElems(s)
    /\ s = <<>> => out = <<"[", Quote, Quote, "]">>

----------------------------------------------------------------------------
(* C17: build_param_array renders a comma-separated input as an array with  *)
(* one quoted element per token, in order; the number of elements is the    *)
(* number of commas plus one, empty tokens are kept as empty strings and    *)
(* the empty input yields the one-element array of the empty string         *)
C17_OneElementPerToken ==
    query # NoQuery =>
        /\ RendersTokens(env.mcvs, query.game_versions)
        /\ RendersTokens(env.loader, query.loaders)

\* witness: a leading and a trailing empty token around "a", and the empty loader
C17_Witness ==
    /\ env.mcvs = <<Comma, "a", Comma>>
    /\ env.loader = <<>>
    /\ query.game_versions = <<"[", Quote, Quote, Comma, Quote, "a", Quote, Comma, Quote, Quote, "]">>
    /\ query.loaders = <<"[", Quote, Quote, "]">>

----------------------------------------------------------------------------
(* C11: search_for_primary_file returns None for the empty list; otherwise  *)
(* the smallest index whose file is marked primary, or index 0 when no file *)
(* is marked primary; the result is always a valid index of the list.  The  *)
(* file of every entry of mods is the file at that index.                   *)
SelectsPrimary(files) ==
    LET r == search_for_primary_file(files)
        marked == {i \in 0..(Len(files) - 1) : files[i + 1].primary}
    IN  /\ files = <<>> => r = NoIdx
        /\ files # <<>> =>
              /\ r.some
              /\ r.idx \in 0..(Len(files) - 1)
              /\ marked # {} => (r.idx \in marked /\ \A i \in marked : r.idx <= i)
              /\ marked = {} => r.idx = 0

C11_FirstPrimaryOrFirst ==
    /\ \A v \in VersionIds : SelectsPrimary(env.versions[v].files)
    /\ \A i \in 1..Len(mods) :
          LET files == env.versions[mods[i].version_id].files
              marked == {k \in 1..Len(files) : files[k].primary}
          IN  /\ files # <<>>
              /\ \E k \in 1..Len(files) :
                    /\ mods[i].file = files[k]
                    /\ IF marked = {} THEN k = 1
                       ELSE k \in marked /\ \A j \in marked : k <= j

\* witness: the requested version has two primary files after a secondary one and
\* the second of the list was selected; the dependency has no primary file and its
\* first file was selected
C11_Witness ==
    /\ Len(mods) = 2
    /\ LET fa == env.versions[mods[1].version_id].files
           fb == env.versions[mods[2].version_id].files
       IN  /\ Len(fa) = 3 /\ ~fa[1].primary /\ fa[2].primary /\ fa[3].primary
           /\ mods[1].file = fa[2]
           /\ Len(fb) = 2 /\ ~fb[1].primary /\ ~fb[2].primary
           /\ mods[2].file = fb[1]

----------------------------------------------------------------------------
(* C12: verification of a destination path returns exactly one of four      *)
(* outcomes determined only by the state of the path: NotExists when no     *)
(* file is there, BadFile when a file is there but cannot be read, Ok when  *)
(* it is readable and its SHA-512 digest equals contentHash, BadHash when   *)
(* it is readable and the digest differs; it never modifies the file        *)
Outcome(sha512, file) ==
    CASE ~file.exists -> "NotExists"
      [] file.exists /\ ~file.readable -> "BadFile"
      [] file.exists /\ file.readable /\ Sha512(file.bytes) = sha512 -> "Ok"
      [] file.exists /\ file.readable /\ Sha512(file.bytes) # sha512 -> "BadHash"

----------------------------------------------------------------------------
(* C13: within one batch of concurrently launched download tasks no two     *)
(* tasks write to the same destination filename.  Refuted: the entries of   *)
(* two projects whose primary files share a filename, or of an id requested *)
(* twice, both create and write the same path.                              *)
Wrote(i) ==
    /\ tasks[i].st = "done" /\ i \in hist.fetched
    /\ Match(i) /\ PathOf(i) \notin env.createFails

C13_DistinctDestinations ==
    pc = "download" =>
        \A i, j \in 1..Len(tasks) :
            (i # j /\ Wrote(i) /\ Wrote(j)) => PathOf(i) # PathOf(j)

----------------------------------------------------------------------------
(* C14: for a fixed registry and a fixed initial set, the set of projectIds *)
(* in mods when resolve_dependencies returns is the same under every order  *)
(* in which the concurrent lookups of a pass complete: it is a function of  *)
(* the registry and the initial set alone                                   *)

\* one pass over ms, its dependencies taken in the order of the entries
PassResult(ms) ==
    LET deps == AllDependencies(ms)
    IN  AddAll(ms, SelectSeq([i \in 1..Len(deps) |-> resolve_to_version(deps[i])], GoodEdge))

\* the passes repeated until one adds nothing
RECURSIVE Resolved(_)
Resolved(ms) ==
    LET next == PassResult(ms)
    IN  IF Len(next) = Len(ms) THEN ms ELSE Resolved(next)

C14_MembershipIsDeterministic ==
    Returned => ProjectsOf(mods) = ProjectsOf(Resolved(hist.mods0))

\* witness: a return after a pass whose lookups resolved to two versions of one new
\* project, where the version kept decides whether a further project is in the set
C14_Witness ==
    /\ Returned /\ AllLookupsSucceed
    /\ \E i \in 1..Len(mods) : \E p, q \in 1..Len(mods[i].dependencies) :
          LET v == resolve_to_version(mods[i].dependencies[p]).ver
              w == resolve_to_version(mods[i].dependencies[q]).ver
          IN  /\ p < q /\ v # w
              /\ resolve_to_version(mods[i].dependencies[p]).ok
              /\ resolve_to_version(mods[i].dependencies[q]).ok
              /\ env.versions[v].project_id = env.versions[w].project_id
              /\ env.versions[v].project_id \notin ProjectsOf(hist.mods0)
              /\ \E k \in 1..Len(mods) : mods[k].version_id = v
              /\ \E x \in EdgesOf(w) : env.versions[x].project_id \notin ProjectsOf(mods)

----------------------------------------------------------------------------
(* C15: the batch operation never aborts on a per-entry failure: an id      *)
(* whose project, version or file cannot be obtained is left out, every     *)
(* entry that was resolved gets a download attempt, and the operation       *)
(* returns success whatever subset of entries failed                        *)

\* the project, a version and a file of the id can be obtained
Obtainable(id) ==
    /\ id \in env.projOk
    /\ env.top[id].ok /\ Len(env.top[id].list) > 0
    /\ Len(env.versions[env.top[id].list[1]].files) > 0

C15_BatchNeverAborts ==
    /\ pc # "idle" =>
          /\ [i \in 1..Len(hist.mods0) |-> hist.mods0[i].project_id]
               = SelectSeq(ids, Obtainable)
          /\ SubSeq(mods, 1, Len(hist.mods0)) = hist.mods0
          /\ ENABLED Next
    /\ pc = "download" =>
          /\ Len(tasks) = Len(mods)
          /\ \A i \in 1..Len(tasks) :
                /\ tasks[i].verified \in {"Ok", "NotExists", "BadHash", "BadFile"}
                /\ tasks[i].st = "done" \/ i \in hist.fetched
    /\ AllDone => ENABLED join_downloads
    /\ (pc = "idle" /\ hist.run > 0) => hist.returned = "Ok"

\* witness: the operation returned success after one id was left out, one task
\* failed and another task downloaded its file
C15_Witness ==
    /\ pc = "idle" /\ hist.run = 1 /\ hist.returned = "Ok"
    /\ Len(hist.mods0) < Len(ids)
    /\ \E i, j \in 1..Len(tasks) :
          /\ IsError(tasks[i].result)
          /\ j \in hist.fetched /\ tasks[j].result = TaskOk
          /\ dir[PathOf(j)] = FileWith(Response(j).bytes, TRUE)

----------------------------------------------------------------------------
(* C16: for the single-id download operation every failure of the request   *)
(* (the registry lookup failing, no version matching the filter, the        *)
(* version having no file, the fetch failing, the write failing) propagates *)
(* to the caller as an Err result.  Refuted: when no file can be obtained   *)
(* for the id the operation prints a message and returns Ok(()).            *)
LookupFailed(id) ==
    \/ ~env.top[id].ok
    \/ Len(env.top[id].list) = 0
    \/ Len(env.versions[env.top[id].list[1]].files) = 0

\* the fetch was made and it, or the write of the matching bytes, failed
TransferFailed ==
    /\ Len(tasks) = 1 /\ tasks[1].verified = None /\ tasks[1].st = "done"
    /\ LET resp == env.fetch[tasks[1].f_in.url]
           name == tasks[1].f_in.filename
       IN  \/ ~resp.ok
           \/ /\ tasks[1].f_in.sha512 = Sha512(resp.bytes)
              /\ \/ name \in env.createFails
                 \/ env.writeLimit[name] >= 0 /\ env.writeLimit[name] < Len(resp.bytes)

C16_FailuresPropagate ==
    (pc = "idle" /\ hist.run > 0 /\ ~env.verify) =>
        ((LookupFailed(ids[1]) \/ TransferFailed) => hist.returned = "Err")

\* what holds of the code: a failed fetch or write is returned as Err, and an id
\* for which no file can be obtained returns Ok(())
C16_OnlyTransferFailuresPropagate ==
    (pc = "idle" /\ hist.run > 0 /\ ~env.verify) =>
        /\ TransferFailed <=> hist.returned = "Err"
        /\ LookupFailed(ids[1]) => (hist.returned = "Ok" /\ tasks = <<>> /\ dir = hist.dir_start)

----------------------------------------------------------------------------
(* C18: in every pass of resolve_dependencies no version lookup is issued   *)
(* for a dependency whose projectId is already present in the resolved set, *)
(* and at most one lookup is issued per distinct projectId among the        *)
(* dependencies collected in that pass.  Refuted: every pass looks up every *)
(* dependency of every entry, present or not, repeated or not.              *)

\* the lookups in flight: one per dependency collected in this pass
LookupsIssued == IF pc = "lookup" THEN 1..Len(deps_to_search) ELSE {}

C18_NoRedundantLookups ==
    /\ \A i \in LookupsIssued :
          deps_to_search[i].project_id = None
              \/ deps_to_search[i].project_id \notin ProjectsOf(mods)
    /\ \A i, j \in LookupsIssued :
          (i # j /\ deps_to_search[i].project_id # None)
              => deps_to_search[i].project_id # deps_to_search[j].project_id

----------------------------------------------------------------------------
(* C19: if two dependency edges, in the same pass or in different passes,   *)
(* resolve to different versions of the same project, the entry kept is the *)
(* one materialized first; the later one is dropped without error, and an   *)
(* entry once in the set is never replaced or changed by later passes       *)
C19_FirstMaterializedWins ==
    [][/\ pc # "idle" =>
             /\ Len(mods') >= Len(mods)
             /\ SubSeq(mods', 1, Len(mods)) = mods
       /\ (pc = "process" /\ ver_idx' = ver_idx + 1) =>
             LET r == dep_versions[ver_idx + 1]
             IN  (r.ok /\ env.versions[r.ver].project_id \in ProjectsOf(mods)) =>
                     /\ mods' = mods
                     /\ new_deps' = new_deps
                     /\ pc' = "process"]_vars

\* witness: a pass resolved an edge to a version of a project whose entry, with
\* another version, was added by an earlier pass; the entry is as it was
C19_Witness ==
    /\ pc = "process"
    /\ \E j \in 1..ver_idx : \E k \in 1..Len(hist.pass_start) :
          /\ GoodEdge(dep_versions[j])
          /\ k > Len(hist.mods0)
          /\ hist.pass_start[k].project_id = env.versions[dep_versions[j].ver].project_id
          /\ hist.pass_start[k].version_id # dep_versions[j].ver
          /\ mods[k] = hist.pass_start[k]
          /\ \A i \in 1..Len(mods) : mods[i].version_id # dep_versions[j].ver

----------------------------------------------------------------------------
(* Vocabulary of the pass-count property *)

Max(S) == CHOOSE x \in S : \A y \in S : y <= x

\* the number of versions on the longest chain of required-dependency edges that
\* starts at v and visits no version of `seen` (and no version twice)
RECURSIVE ChainFrom(_, _)
ChainFrom(v, seen) ==
    1 + Max({0} \cup {ChainFrom(w, seen \cup {w}) : w \in EdgesOf(v) \ seen})

\* the number of versions on the longest chain starting from an entry of ms
LongestChain(ms) ==
    Max({0} \cup {ChainFrom(ms[i].version_id, {ms[i].version_id}) : i \in 1..Len(ms)})

----------------------------------------------------------------------------
(* C20 as stated: the number of passes resolve_dependencies executes (the   *)
(* final pass that adds nothing included) is at most the length of the      *)
(* longest required-dependency chain starting from the initial set.         *)
(* Refuted for the empty initial set: one pass runs and no chain exists.    *)
C20_PassesWithinChainLength ==
    hist.passes <= LongestChain(hist.mods0)

(* C20 amended: the number of passes is at most the number of versions on   *)
(* the longest chain of required-dependency edges starting from the initial *)
(* set (one more than its number of edges), and exactly one when the        *)
(* initial set is empty                                                     *)
C20_PassesWithinChainLengthOrOne ==
    /\ hist.mods0 # <<>> => hist.passes <= LongestChain(hist.mods0)
    /\ (hist.mods0 = <<>> /\ pc # "idle" /\ pc # "resolve") => hist.passes = 1

\* witness: a return after three passes from one requested entry whose longest chain
\* has three versions
C20_Witness ==
    /\ Returned
    /\ Len(hist.mods0) = 1
    /\ hist.passes = 3
    /\ LongestChain(hist.mods0) = 3

----------------------------------------------------------------------------
(* C21: resolve_to_version dispatches on the dependency record in this      *)
(* order: when versionId is set it looks the version up by id (also when    *)
(* projectId is set as well, which is then ignored); otherwise when         *)
(* projectId is set it returns element zero of the filtered version list,   *)
(* or a NoVersion error when that list is empty; otherwise it returns the   *)
(* unresolved-dependency error without any registry call                    *)
Dispatched(d, request, result) ==
    CASE d.version_id # None ->
            /\ request = <<"get_version_from_version_id", d.version_id>>
            /\ result = IF d.version_id \in env.verOk THEN OkVer(d.version_id)
                        ELSE ErrVer("BadRequest")
      [] d.version_id = None /\ d.project_id # None ->
            /\ request = <<"get_version", d.project_id>>
            /\ result = IF ~env.top[d.project_id].ok THEN ErrVer("BadRequest")
                        ELSE IF env.top[d.project_id].list = <<>> THEN ErrVer("NoVersion")
                        ELSE OkVer(env.top[d.project_id].list[1])
      [] OTHER ->
            /\ request = NoRequest
            /\ result = ErrVer("NoDependency")

C21_DispatchOrder ==
    pc \in {"lookup", "process"} =>
        \A i \in 1..Len(deps_to_search) :
            IF dep_versions[i] = Pending THEN hist.calls[i] = RequestPending
            ELSE Dispatched(deps_to_search[i], hist.calls[i], dep_versions[i])

\* witness: the lookups of one pass: a record with both ids resolved by its version
\* id to a version of another project than the one it names, a record with neither
\* id failed without a request, and a project with an empty version list
C21_Witness ==
    /\ pc = "process"
    /\ \E i, j, k \in 1..Len(deps_to_search) :
          /\ deps_to_search[i].version_id # None /\ deps_to_search[i].project_id # None
          /\ dep_versions[i].ok
          /\ env.versions[dep_versions[i].ver].project_id # deps_to_search[i].project_id
          /\ deps_to_search[j] = Dep(None, None)
          /\ dep_versions[j] = ErrVer("NoDependency") /\ hist.calls[j] = NoRequest
          /\ deps_to_search[k].version_id = None
          /\ dep_versions[k] = ErrVer("NoVersion")

----------------------------------------------------------------------------
(* C22: when the caller supplies an exclusion set (check_against) to        *)
(* Mod::get_dependencies, no registry lookup is made for a dependency whose *)
(* project is in that set, and no returned mod has a projectId that is in   *)
(* that set.  Refuted: every dependency is looked up before the set is      *)
(* consulted.                                                               *)
Excluded == check_set(env.check_against).set

C22_ExcludedNeverLookedUp ==
    (pc = "deps" /\ env.check_against.some) =>
        /\ \A i \in 1..ver_idx :
              (deps_to_search[i].project_id # None /\ deps_to_search[i].project_id \in Excluded)
                  => hist.calls[i] = NoRequest
        /\ \A k \in 1..Len(mods) : mods[k].project_id \notin Excluded

\* what holds of the code: no returned mod has a projectId of the set
C22_ExcludedNeverReturned ==
    (pc = "deps" /\ env.check_against.some) =>
        \A k \in 1..Len(mods) : mods[k].project_id \notin Excluded

----------------------------------------------------------------------------
(* C23: after any sequence of download operations, including ones in which  *)
(* the write fails part-way, the content of a destination path is either    *)
(* what it was before the operation or bytes whose digest equals            *)
(* contentHash; a download never leaves an empty, truncated or partially    *)
(* written file.  Refuted: the destination is created (truncated) before    *)
(* the bytes are written, and a failed write leaves what it had written.    *)
C23_NoPartialFile ==
    [][\A i \in 1..Len(tasks) :
          Completes(i) =>
              \/ dir'[PathOf(i)] = dir[PathOf(i)]
              \/ /\ dir'[PathOf(i)].exists
                 /\ Sha512(dir'[PathOf(i)].bytes) = mods[i].file.sha512]_vars

----------------------------------------------------------------------------
(* C24: the initial set built by collect_mods from the requested id list    *)
(* has no two entries with the same projectId, also when the list repeats   *)
(* an id; hence at most one download task per project is launched.          *)
(* Refuted: an id requested twice is built twice and downloaded twice.      *)
C24_InitialSetUnique ==
    /\ Distinct(hist.mods0)
    /\ pc = "download" =>
          \A i, j \in 1..Len(tasks) : i # j => mods[i].project_id # mods[j].project_id

----------------------------------------------------------------------------
(* C25: in verify mode the output directory is left unchanged and no file   *)
(* fetch is issued, and the list operation reports that all files verified  *)
(* only if every requested id yielded a file whose verification is Ok: the  *)
(* reported count of unverifiable files is the number of requested ids not  *)
(* verified Ok.                                                             *)
(* Refuted: an id that yields no file is left out of the count.             *)
VerifiedOk(id) ==
    LET f == get_file_direct(id)
    IN  f.some /\ verify_file(f.file, dir[f.file.filename]) = "Ok"

NotVerifiedOk == {i \in 1..Len(ids) : ~VerifiedOk(ids[i])}

VerifyFrame ==
    /\ dir = hist.dir_start
    /\ pc = "idle"
    /\ \A i \in 1..Len(tasks) : tasks[i].st # "fetching"

C25_VerifyModeReport ==
    env.verify =>
        /\ VerifyFrame
        /\ \A k \in 1..Len(hist.reports) :
              /\ hist.reports[k].all_verified => NotVerifiedOk = {}
              /\ hist.reports[k].bad = Cardinality(NotVerifiedOk)

\* what holds of the code: the frame, and the count over the ids that yielded a file
C25_VerifyModeCountsFoundFiles ==
    env.verify =>
        /\ VerifyFrame
        /\ \A k \in 1..Len(hist.reports) :
              LET found == {i \in 1..Len(ids) : get_file_direct(ids[i]).some}
              IN  /\ hist.reports[k].total = Cardinality(found)
                  /\ hist.reports[k].bad = Cardinality(found \cap NotVerifiedOk)
                  /\ hist.reports[k].all_verified <=> found \cap NotVerifiedOk = {}

====
